---- MODULE Spec2Model ----
(***************************************************************************)
(* Model of main.py: the API-key store and its JSON snapshot, the sliding  *)
(* window rate limiter of get_api_key, the admin endpoints, startup and    *)
(* shutdown, and the periodic sweep of the temporary download directory.   *)
(***************************************************************************)
EXTENDS Integers, Sequences, FiniteSets, TLC

(* ------------------------------------------------------------------ *)
(* Program constants                                                    *)
(* ------------------------------------------------------------------ *)
MASTER_API_KEY == "mk"

MAX_FILE_AGE_SECONDS == 3600

\* The rolling window of get_api_key: "current_time - t < 60".
RATE_WINDOW_SECONDS == 60

\* requests_per_minute of the record startup_event synthesizes.
MASTER_REQUESTS_PER_MINUTE == 100

\* asyncio.sleep(600) between two sweeps.
SWEEP_INTERVAL_SECONDS == 600

\* Python's None in the Optional[str] field last_used.
NoneValue == -1

(* ------------------------------------------------------------------ *)
(* Bounds of the model                                                  *)
(* ------------------------------------------------------------------ *)
\* Times the clock advances in one run.
MaxTicks == 2

\* Seconds the clock advances in one step.
TickSeconds == 30

\* Admissions (successful get_api_key calls) in one run.
MaxAdmissions == 2

\* Requests in flight at once.
MaxReqs == 2

\* Download and info requests in flight at once.
MaxJobs == 2

(* ------------------------------------------------------------------ *)
(* Inputs                                                               *)
(* ------------------------------------------------------------------ *)
\* The keys "ytapi_" + secrets.token_urlsafe(24) of one run, in the order
\* they are drawn; a token is never drawn twice.
NewKeys == <<"k1">>

NewKey(n) == NewKeys[n]

\* A key found in a snapshot written by an earlier run.
OldKey == "k0"

\* X-API-Key values a caller may present; "bad" is never a key of the store.
PresentedKeys == {MASTER_API_KEY, OldKey, "bad"} \cup {NewKey(n) : n \in 1..Len(NewKeys)}

\* Callers of the admin endpoints: the holder of the configured master key
\* and the holder of an ordinary key.
AdminCallers == {MASTER_API_KEY, OldKey}

\* NewAPIKeyRequest bodies: owner is any str, requests_per_minute any int.
NewAPIKeyRequests ==
    { [owner |-> "alice", requests_per_minute |-> 1],
      [owner |-> "master", requests_per_minute |-> 0],
      [owner |-> "bob", requests_per_minute |-> -1] }

Reqs == 1..MaxReqs

\* Handler slots for /info, /download/video and /download/audio.
Jobs == 1..MaxJobs

(* ------------------------------------------------------------------ *)
(* APIKeyData and the dict api_keys_db (insertion ordered)              *)
(* ------------------------------------------------------------------ *)
APIKeyData(key, owner, rpm, active, total, created, last) ==
    [key |-> key, owner |-> owner, requests_per_minute |-> rpm,
     is_active |-> active, total_requests |-> total,
     created_at |-> created, last_used |-> last]

\* A dict is a sequence of entries [k, v] in insertion order, keys distinct.
DictKeys(d) == {d[i].k : i \in 1..Len(d)}

DictHas(d, k) == k \in DictKeys(d)

DictIndex(d, k) == CHOOSE i \in 1..Len(d) : d[i].k = k

DictGet(d, k) == d[DictIndex(d, k)].v

\* d[k] = v: overwrite in place, or append a new entry.
DictPut(d, k, v) ==
    IF DictHas(d, k)
    THEN [d EXCEPT ![DictIndex(d, k)] = [k |-> k, v |-> v]]
    ELSE Append(d, [k |-> k, v |-> v])

\* del d[k]
DictDel(d, k) == SelectSeq(d, LAMBDA e : e.k # k)

(* ------------------------------------------------------------------ *)
(* The JSON snapshot api_keys.json                                      *)
(* ------------------------------------------------------------------ *)
JStr(s) == [t |-> "string", s |-> s]
JTime(n) == [t |-> "string", n |-> n]
JInt(n) == [t |-> "number", n |-> n]
JBool(b) == [t |-> "bool", b |-> b]
JNull == [t |-> "null"]

\* data.dict() of one record, as json.dump writes it.
DumpRecord(r) ==
    [t |-> "object",
     key |-> JStr(r.key),
     owner |-> JStr(r.owner),
     requests_per_minute |-> JInt(r.requests_per_minute),
     is_active |-> JBool(r.is_active),
     total_requests |-> JInt(r.total_requests),
     created_at |-> JTime(r.created_at),
     last_used |-> IF r.last_used = NoneValue THEN JNull ELSE JTime(r.last_used)]

\* File contents: no file, text that is no JSON, a JSON value that is no
\* object, or a JSON object (its members in order).
FileAbsent == [kind |-> "absent"]
FileGarbage == [kind |-> "garbage"]
FileArray == [kind |-> "array"]
FileObject(members) == [kind |-> "object", members |-> members]

\* save_keys_to_file: the whole dict, one member per record.
SaveKeysToFile(db) ==
    FileObject([i \in 1..Len(db) |-> [k |-> db[i].k, v |-> DumpRecord(db[i].v)]])

\* APIKeyData(**value) succeeds: value is a mapping (an object) that holds the
\* required fields with values of their types.
IsMapping(v) == v.t = "object"

ValidRecord(v) ==
    /\ {"key", "owner", "requests_per_minute"} \subseteq DOMAIN v
    /\ v.key.t = "string"
    /\ v.owner.t = "string"
    /\ v.requests_per_minute.t = "number"

\* The constructor leaving is_active at its default.
ParseRecordActiveDefault(v, clock) ==
    APIKeyData(
        v.key.s,
        v.owner.s,
        v.requests_per_minute.n,
        TRUE,
        IF "total_requests" \in DOMAIN v THEN v.total_requests.n ELSE 0,
        IF "created_at" \in DOMAIN v THEN v.created_at.n ELSE clock,
        IF "last_used" \in DOMAIN v /\ v.last_used.t # "null"
        THEN v.last_used.n ELSE NoneValue)

\* The record APIKeyData(**value) builds: absent optional fields take their
\* defaults (is_active True, total_requests 0, created_at now, last_used None).
ParseRecord(v, clock) ==
    APIKeyData(
        v.key.s,
        v.owner.s,
        v.requests_per_minute.n,
        IF "is_active" \in DOMAIN v THEN v.is_active.b ELSE TRUE,
        IF "total_requests" \in DOMAIN v THEN v.total_requests.n ELSE 0,
        IF "created_at" \in DOMAIN v THEN v.created_at.n ELSE clock,
        IF "last_used" \in DOMAIN v /\ v.last_used.t # "null"
        THEN v.last_used.n ELSE NoneValue)

\* The loop "for key, value in data.items(): api_keys_db[key] = APIKeyData(**value)"
\* from member i on. A value that is no mapping raises TypeError, which the
\* except clause catches ("warned"); a mapping that is no valid record raises
\* pydantic's ValidationError, a ValueError, which it does not catch ("raised").
\* Either way the entries stored before it stay in the dict.
RECURSIVE LoadMembers(_, _, _, _)
LoadMembers(members, i, db, clock) ==
    IF i > Len(members) THEN [db |-> db, outcome |-> "ok"]
    ELSE IF ~IsMapping(members[i].v) THEN [db |-> db, outcome |-> "warned"]
    ELSE IF ~ValidRecord(members[i].v) THEN [db |-> db, outcome |-> "raised"]
    ELSE LoadMembers(members, i + 1,
                     DictPut(db, members[i].k, ParseRecord(members[i].v, clock)),
                     clock)

\* load_keys_from_file: no file returns at once; json.load of text that is no
\* JSON raises JSONDecodeError (caught); data.items() of a value that is no
\* dict raises AttributeError (not caught).
LoadKeysFromFile(f, db, clock) ==
    IF f.kind = "absent" THEN [db |-> db, outcome |-> "ok"]
    ELSE IF f.kind = "garbage" THEN [db |-> db, outcome |-> "warned"]
    ELSE IF f.kind # "object" THEN [db |-> db, outcome |-> "raised"]
    ELSE LoadMembers(f.members, 1, db, clock)

\* bool(k) of a dict key: the empty string is falsy.
Truthy(k) == k # ""

\* any(k for k, v in api_keys_db.items() if v.owner == "master")
HasMasterOwner(db) ==
    \E i \in 1..Len(db) : db[i].v.owner = "master" /\ Truthy(db[i].k)

\* The record startup_event synthesizes.
MasterRecord(clock) ==
    APIKeyData(MASTER_API_KEY, "master", MASTER_REQUESTS_PER_MINUTE, TRUE, 0,
               clock, NoneValue)

\* The dict after the master check of startup_event.
EnsureMaster(db, clock) ==
    IF HasMasterOwner(db) THEN db
    ELSE DictPut(db, MASTER_API_KEY, MasterRecord(clock))

(* ------------------------------------------------------------------ *)
(* State                                                                *)
(* ------------------------------------------------------------------ *)
VARIABLES
    phase,              \* "boot", "loaded", "running", "stopped" or "crashed"
    now,                \* the clock (time.time(), datetime.utcnow()), seconds
    file,               \* contents of api_keys.json
    api_keys_db,        \* the dict api_keys_db
    rate_limit_tracker, \* the dict rate_limit_tracker: key -> list of timestamps
    req,                \* per request in flight: its position in get_api_key
    loop,               \* the request whose coroutine holds the event loop, or 0
    issued,             \* tokens drawn from secrets.token_urlsafe so far
    admits,             \* history: per key, the timestamps of its admissions
    saved,              \* history: the dict handed to the last save_keys_to_file
    temp_dir,           \* the directory temp_downloads: name -> entry
    scheduled,          \* files with a pending background task os.remove
    sweep,              \* position of cleanup_temp_files
    sending,            \* files whose FileResponse is not yet fully sent
    job                 \* per download or info request: its position in the handler

dirVars == <<temp_dir, scheduled, sweep, sending, job>>

vars == <<phase, now, file, api_keys_db, rate_limit_tracker, req, loop, issued,
          admits, saved, temp_dir, scheduled, sweep, sending, job>>

AllKeys == PresentedKeys

IdleReq == [pc |-> "idle", api_key |-> "-", current_time |-> 0]

EmptyTracker == [k \in {} |-> <<>>]

NothingSaved == [set |-> FALSE, db |-> <<>>]

\* create_temp_dir on a fresh host: no entry.
EmptyDir == [f \in {} |-> 0]

\* A handler slot no request occupies.
IdleJob ==
    [pc |-> "idle", kind |-> "-", api_key |-> "-", status |-> 0, token |-> "-",
     path |-> <<>>]

NoJobs == [j \in Jobs |-> IdleJob]

\* cleanup_temp_files inside asyncio.sleep(600), due to wake at time wake.
Sleeping(wake) == [pc |-> "sleep", wake |-> wake, t |-> 0, listing |-> <<>>, i |-> 1]

\* Snapshots an earlier run, possibly under another MASTER_API_KEY, left behind.
OldUser == APIKeyData(OldKey, "alice", 2, FALSE, 1, 0, 0)

OldMaster ==
    APIKeyData(OldKey, "master", MASTER_REQUESTS_PER_MINUTE, TRUE, 0, 0, NoneValue)

InactiveMaster ==
    APIKeyData(MASTER_API_KEY, "master", MASTER_REQUESTS_PER_MINUTE, FALSE, 0, 0,
               NoneValue)

WellFormedSnapshots ==
    { FileAbsent,
      SaveKeysToFile(<<[k |-> MASTER_API_KEY, v |-> MasterRecord(0)],
                       [k |-> OldKey, v |-> OldUser]>>),
      SaveKeysToFile(<<[k |-> OldKey, v |-> OldMaster]>>),
      SaveKeysToFile(<<[k |-> MASTER_API_KEY, v |-> InactiveMaster]>>) }

\* Module import: both dicts empty, nothing served yet.
InitProcess ==
    /\ phase = "boot"
    /\ now = 0
    /\ api_keys_db = <<>>
    /\ rate_limit_tracker = EmptyTracker
    /\ req = [r \in Reqs |-> IdleReq]
    /\ loop = 0
    /\ issued = 0
    /\ admits = [k \in AllKeys |-> <<>>]
    /\ saved = NothingSaved
    /\ temp_dir = EmptyDir
    /\ scheduled = {}
    /\ sweep = Sleeping(SWEEP_INTERVAL_SECONDS)
    /\ sending = {}
    /\ job = NoJobs

Init ==
    /\ InitProcess
    /\ file \in WellFormedSnapshots

\* A call of save_keys_to_file.
Persist(db) ==
    /\ file' = SaveKeysToFile(db)
    /\ saved' = [set |-> TRUE, db |-> db]

(* ------------------------------------------------------------------ *)
(* Startup, shutdown, clock                                             *)
(* ------------------------------------------------------------------ *)
\* startup_event: load the snapshot; an exception out of it ends the process.
\* Otherwise add the master record when no record is owned by "master", and
\* save only then.
Startup ==
    /\ phase = "boot"
    /\ LET loaded == LoadKeysFromFile(file, api_keys_db, now)
           db == EnsureMaster(loaded.db, now)
       IN IF loaded.outcome = "raised"
          THEN /\ phase' = "crashed"
               /\ api_keys_db' = loaded.db
               /\ UNCHANGED <<file, saved>>
          ELSE /\ phase' = "running"
               /\ api_keys_db' = db
               /\ IF HasMasterOwner(loaded.db)
                  THEN UNCHANGED <<file, saved>>
                  ELSE Persist(db)
    /\ UNCHANGED <<dirVars, now, rate_limit_tracker, req, loop, issued, admits>>

\* shutdown_event, run by the event loop once no handler is running.
Shutdown ==
    /\ phase = "running"
    /\ loop = 0
    /\ \A r \in Reqs : req[r].pc = "idle"
    /\ phase' = "stopped"
    /\ Persist(api_keys_db)
    /\ UNCHANGED <<dirVars, now, api_keys_db, rate_limit_tracker, req, loop, issued, admits>>

\* Time passes between two callbacks of the event loop.
Tick ==
    /\ phase = "running"
    /\ loop = 0
    /\ now + TickSeconds <= MaxTicks * TickSeconds
    /\ now' = now + TickSeconds
    /\ UNCHANGED <<dirVars, phase, file, api_keys_db, rate_limit_tracker, req, loop, issued,
                   admits, saved>>

(* ------------------------------------------------------------------ *)
(* get_api_key                                                          *)
(* ------------------------------------------------------------------ *)
\* Off by one: an entry exactly 60 seconds old is kept.
FilterWindowInclusive(window, current_time) ==
    SelectSeq(window, LAMBDA t : current_time - t <= RATE_WINDOW_SECONDS)

\* [t for t in rate_limit_tracker[api_key] if current_time - t < 60]
FilterWindow(window, current_time) ==
    SelectSeq(window, LAMBDA t : current_time - t < RATE_WINDOW_SECONDS)

\* len(rate_limit_tracker[api_key]) >= key_data.requests_per_minute
OverQuota(window, rpm) == Len(window) >= rpm

\* rate_limit_tracker[api_key], the empty list when the key has no entry yet.
WindowOf(tracker, k) == IF k \in DOMAIN tracker THEN tracker[k] ELSE <<>>

\* rate_limit_tracker[api_key] = window
SetWindow(tracker, k, window) ==
    [x \in DOMAIN tracker \cup {k} |-> IF x = k THEN window ELSE tracker[x]]

\* The quota check moved before the active flag check.
GateStatusQuotaFirst(db, tracker, api_key, current_time) ==
    IF ~DictHas(db, api_key) THEN 401
    ELSE IF OverQuota(FilterWindow(WindowOf(tracker, api_key), current_time),
                      DictGet(db, api_key).requests_per_minute) THEN 429
    ELSE IF ~DictGet(db, api_key).is_active THEN 403
    ELSE 200

\* The status get_api_key answers a request presenting api_key at
\* current_time: the checks of lines 97, 104 and 118 in their order; 200
\* stands for the return of key_data.
GateStatus(db, tracker, api_key, current_time) ==
    IF ~DictHas(db, api_key) THEN 401
    ELSE IF ~DictGet(db, api_key).is_active THEN 403
    ELSE IF OverQuota(FilterWindow(WindowOf(tracker, api_key), current_time),
                      DictGet(db, api_key).requests_per_minute) THEN 429
    ELSE 200

\* Admissions so far, over all keys.
RECURSIVE SumLen(_, _)
SumLen(f, keys) ==
    IF keys = {} THEN 0
    ELSE LET k == CHOOSE x \in keys : TRUE
         IN Len(f[k]) + SumLen(f, keys \ {k})

Admitted(log) == SumLen(log, DOMAIN log)

\* An await between the quota check and the append.
GateYieldsAfterCheck == TRUE

\* Whether the coroutine get_api_key gives up the event loop between the quota
\* check and the append: its body holds no await.
GateYields == FALSE

\* Lines 97-122. A request that passes the first two checks stores the
\* filtered window back before the quota check.
GateCheck(r, k) ==
    /\ phase = "running"
    /\ loop = 0
    /\ req[r].pc = "idle"
    /\ \A q \in Reqs : q < r => req[q].pc # "idle"
    /\ Admitted(admits) < MaxAdmissions
    /\ LET status == GateStatus(api_keys_db, rate_limit_tracker, k, now)
       IN /\ rate_limit_tracker' =
                IF status \in {401, 403} THEN rate_limit_tracker
                ELSE SetWindow(rate_limit_tracker, k,
                               FilterWindow(WindowOf(rate_limit_tracker, k), now))
          /\ IF status = 200
             THEN /\ req' = [req EXCEPT ![r] = [pc |-> "checked", api_key |-> k,
                                                current_time |-> now]]
                  /\ loop' = IF GateYields THEN 0 ELSE r
             ELSE UNCHANGED <<req, loop>>
    /\ UNCHANGED <<dirVars, phase, now, file, api_keys_db, issued, admits, saved>>

\* The append without the update of the usage statistics.
GateCommitNoCount(r) ==
    /\ phase = "running"
    /\ req[r].pc = "checked"
    /\ loop \in {0, r}
    /\ LET k == req[r].api_key
       IN /\ rate_limit_tracker' =
                SetWindow(rate_limit_tracker, k,
                          Append(WindowOf(rate_limit_tracker, k), req[r].current_time))
          /\ admits' = [admits EXCEPT ![k] = Append(@, req[r].current_time)]
    /\ req' = [req EXCEPT ![r] = IdleReq]
    /\ loop' = 0
    /\ UNCHANGED <<dirVars, phase, now, file, issued, saved, api_keys_db>>

\* Lines 124-132: append current_time, then update the usage statistics of
\* key_data, the record object read at line 103. Nothing is saved.
GateCommit(r) ==
    /\ phase = "running"
    /\ req[r].pc = "checked"
    /\ loop \in {0, r}
    /\ LET k == req[r].api_key
       IN /\ rate_limit_tracker' =
                SetWindow(rate_limit_tracker, k,
                          Append(WindowOf(rate_limit_tracker, k), req[r].current_time))
          /\ api_keys_db' =
                IF DictHas(api_keys_db, k)
                THEN DictPut(api_keys_db, k,
                             [DictGet(api_keys_db, k) EXCEPT
                                 !.total_requests = @ + 1, !.last_used = now])
                ELSE api_keys_db
          /\ admits' = [admits EXCEPT ![k] = Append(@, req[r].current_time)]
    /\ req' = [req EXCEPT ![r] = IdleReq]
    /\ loop' = 0
    /\ UNCHANGED <<dirVars, phase, now, file, issued, saved>>

(* ------------------------------------------------------------------ *)
(* Admin endpoints, each behind the dependency is_master                *)
(* ------------------------------------------------------------------ *)
\* The gate looking the presented key up in the store, as get_api_key does.
IsMasterInStore(api_key) ==
    /\ api_key = MASTER_API_KEY
    /\ DictHas(api_keys_db, api_key)
    /\ DictGet(api_keys_db, api_key).is_active

\* is_master: only the presented key is compared with the configured one.
IsMaster(api_key) == api_key = MASTER_API_KEY

\* Status of the endpoints without a path parameter (generate, list).
AdminStatus(api_key) == IF IsMaster(api_key) THEN 200 ELSE 403

\* Status of toggle_api_key_status and of delete_api_key: the dependency
\* first, then the 404 and the 400 check of the handler.
TargetStatus(db, api_key, target) ==
    IF ~IsMaster(api_key) THEN 403
    ELSE IF ~DictHas(db, target) THEN 404
    ELSE IF target = MASTER_API_KEY THEN 400
    ELSE 200

AdminReady == phase = "running" /\ loop = 0

\* POST /admin/keys/generate
GenerateApiKey(p, request) ==
    /\ AdminReady
    /\ issued < Len(NewKeys)
    /\ IF AdminStatus(p) = 200
       THEN LET new_key == NewKey(issued + 1)
                db == DictPut(api_keys_db, new_key,
                              APIKeyData(new_key, request.owner,
                                         request.requests_per_minute, TRUE, 0,
                                         now, NoneValue))
            IN /\ api_keys_db' = db
               /\ Persist(db)
               /\ issued' = issued + 1
       ELSE UNCHANGED <<api_keys_db, file, saved, issued>>
    /\ UNCHANGED <<dirVars, phase, now, rate_limit_tracker, req, loop, admits>>

\* GET /admin/keys
ListApiKeys(p) ==
    /\ AdminReady
    /\ AdminStatus(p) \in {200, 403}
    /\ UNCHANGED vars

\* Deactivation done by dropping the record.
ToggleApiKeyStatusDrops(p, key_to_update) ==
    /\ AdminReady
    /\ IF TargetStatus(api_keys_db, p, key_to_update) = 200
       THEN LET db == IF DictGet(api_keys_db, key_to_update).is_active
                      THEN DictDel(api_keys_db, key_to_update)
                      ELSE DictPut(api_keys_db, key_to_update,
                                   [DictGet(api_keys_db, key_to_update) EXCEPT
                                       !.is_active = TRUE])
            IN /\ api_keys_db' = db
               /\ Persist(db)
       ELSE UNCHANGED <<api_keys_db, file, saved>>
    /\ UNCHANGED <<dirVars, phase, now, rate_limit_tracker, req, loop, issued, admits>>

\* PUT /admin/keys/{key_to_update}/toggle
ToggleApiKeyStatus(p, key_to_update) ==
    /\ AdminReady
    /\ IF TargetStatus(api_keys_db, p, key_to_update) = 200
       THEN LET db == DictPut(api_keys_db, key_to_update,
                              [DictGet(api_keys_db, key_to_update) EXCEPT
                                  !.is_active = ~@])
            IN /\ api_keys_db' = db
               /\ Persist(db)
       ELSE UNCHANGED <<api_keys_db, file, saved>>
    /\ UNCHANGED <<dirVars, phase, now, rate_limit_tracker, req, loop, issued, admits>>

\* The delete without its call of save_keys_to_file.
DeleteApiKeyUnsaved(p, key_to_delete) ==
    /\ AdminReady
    /\ api_keys_db' = IF TargetStatus(api_keys_db, p, key_to_delete) = 200
                      THEN DictDel(api_keys_db, key_to_delete)
                      ELSE api_keys_db
    /\ UNCHANGED <<dirVars, phase, now, file, saved, rate_limit_tracker, req, loop, issued,
                   admits>>

\* DELETE /admin/keys/{key_to_delete}
DeleteApiKey(p, key_to_delete) ==
    /\ AdminReady
    /\ IF TargetStatus(api_keys_db, p, key_to_delete) = 200
       THEN LET db == DictDel(api_keys_db, key_to_delete)
            IN /\ api_keys_db' = db
               /\ Persist(db)
       ELSE UNCHANGED <<api_keys_db, file, saved>>
    /\ UNCHANGED <<dirVars, phase, now, rate_limit_tracker, req, loop, issued, admits>>

Next ==
    \/ Startup
    \/ Shutdown
    \/ Tick
    \/ \E r \in Reqs, k \in PresentedKeys : GateCheck(r, k)
    \/ \E r \in Reqs : GateCommit(r)
    \/ \E p \in AdminCallers, request \in NewAPIKeyRequests :
          GenerateApiKey(p, request)
    \/ \E p \in AdminCallers : ListApiKeys(p)
    \/ \E p \in AdminCallers, k \in PresentedKeys : ToggleApiKeyStatus(p, k)
    \/ \E p \in AdminCallers, k \in PresentedKeys : DeleteApiKey(p, k)

Spec == Init /\ [][Next]_vars

(* ------------------------------------------------------------------ *)
(* Properties of the admission gate                                     *)
(* ------------------------------------------------------------------ *)
Known(k) == DictHas(api_keys_db, k)

Active(k) == Known(k) /\ DictGet(api_keys_db, k).is_active

Inactive(k) == Known(k) /\ ~DictGet(api_keys_db, k).is_active

QuotaOf(k) == DictGet(api_keys_db, k).requests_per_minute

\* The status an attempt with key k gets in the current state.
StatusNow(k) == GateStatus(api_keys_db, rate_limit_tracker, k, now)

\* Admissions of k, out of the history, less than 60 seconds before time t.
RecentAdmissions(k, t) ==
    Cardinality({i \in 1..Len(admits[k]) : t - admits[k][i] < RATE_WINDOW_SECONDS})

\* The step is an admission of k.
Admits(k) == Len(admits'[k]) = Len(admits[k]) + 1

\* C1: a known, active key k with quota q is admitted at time now iff fewer
\* than q earlier admissions of k have a timestamp t with now - t < 60; so a
\* key with q <= 0 is always throttled, and every admission that takes place
\* finds fewer than q admissions of its key in the 60 seconds before it.
C1_Decision ==
    phase = "running" =>
        \A k \in PresentedKeys :
            Active(k) =>
                /\ StatusNow(k) \in {200, 429}
                /\ StatusNow(k) = 200 <=> RecentAdmissions(k, now) < QuotaOf(k)
                /\ QuotaOf(k) <= 0 => StatusNow(k) = 429

C1_Admission ==
    \A k \in PresentedKeys :
        Admits(k) =>
            /\ Active(k)
            /\ admits'[k][Len(admits'[k])] <= now
            /\ RecentAdmissions(k, admits'[k][Len(admits'[k])]) < QuotaOf(k)

C1_SlidingWindow == [](C1_Decision) /\ [][C1_Admission]_vars

\* A key with quota q >= 1 that was admitted more than q times (so again
\* after its window ran out) and is throttled now.
C1_Witness ==
    \E k \in PresentedKeys :
        /\ Active(k)
        /\ QuotaOf(k) >= 1
        /\ Len(admits[k]) > QuotaOf(k)
        /\ StatusNow(k) = 429

\* C2: the checks come in the order existence, active flag, quota: an absent
\* key gets 401, a present inactive key 403 even with a full window, and 429
\* goes only to a present, active key.
C2_CheckOrder ==
    phase = "running" =>
        \A k \in PresentedKeys :
            /\ ~Known(k) => StatusNow(k) = 401
            /\ Inactive(k) => StatusNow(k) = 403
            /\ StatusNow(k) = 429 => Active(k)

\* An inactive key whose window is full is answered 403.
C2_Witness ==
    \E k \in PresentedKeys :
        /\ phase = "running"
        /\ Inactive(k)
        /\ WindowOf(rate_limit_tracker, k) # <<>>
        /\ RecentAdmissions(k, now) >= QuotaOf(k)
        /\ StatusNow(k) = 403

\* C3: a toggle of an active key leaves it in the store, inactive; from then
\* on every attempt with it gets 403, whatever its window holds, and it stays
\* inactive over every step that is not a toggle or a delete of that key.
C3_Step(k) ==
    /\ (Active(k) /\ ToggleApiKeyStatus(MASTER_API_KEY, k)) =>
            /\ DictHas(api_keys_db', k)
            /\ ~DictGet(api_keys_db', k).is_active
    /\ (Inactive(k) /\ ~ToggleApiKeyStatus(MASTER_API_KEY, k)
                    /\ ~DeleteApiKey(MASTER_API_KEY, k)) =>
            /\ DictHas(api_keys_db', k)
            /\ ~DictGet(api_keys_db', k).is_active
    /\ (DictHas(api_keys_db', k) /\ ~DictGet(api_keys_db', k).is_active) =>
            GateStatus(api_keys_db', rate_limit_tracker', k, now') = 403

C3_Deactivated == [][\A k \in PresentedKeys : C3_Step(k)]_vars

\* A generated key, admitted before, that a toggle has deactivated.
C3_Witness ==
    /\ phase = "running"
    /\ Inactive(NewKey(1))
    /\ WindowOf(rate_limit_tracker, NewKey(1)) # <<>>
    /\ StatusNow(NewKey(1)) = 403

(* ------------------------------------------------------------------ *)
(* Properties of the admin endpoints and of persistence                 *)
(* ------------------------------------------------------------------ *)
\* C4: after startup a toggle or a delete aimed at the master key is answered
\* 400 and the master record is in the store, active.
C4_MasterProtected ==
    phase = "running" =>
        /\ TargetStatus(api_keys_db, MASTER_API_KEY, MASTER_API_KEY) = 400
        /\ Active(MASTER_API_KEY)

Max(a, b) == IF a >= b THEN a ELSE b

Times == {i * TickSeconds : i \in 0..MaxTicks}

\* Every admission of k less than 60 seconds old is in the stored window of
\* k, in order: the window is the history of k less a prefix of old entries.
NoAdmissionLost(k) ==
    \E n \in 0..Len(admits[k]) :
        /\ WindowOf(rate_limit_tracker, k) = SubSeq(admits[k], n + 1, Len(admits[k]))
        /\ \A i \in 1..n : now - admits[k][i] >= RATE_WINDOW_SECONDS

\* Admissions of k with a timestamp in the 60 seconds from s on.
AdmissionsFrom(k, s) ==
    Cardinality({i \in 1..Len(admits[k]) :
                    s <= admits[k][i] /\ admits[k][i] < s + RATE_WINDOW_SECONDS})

\* A step of get_api_key for key k touches no window but that of k.
OtherWindowsKept(k) ==
    \A j \in PresentedKeys \ {k} :
        WindowOf(rate_limit_tracker', j) = WindowOf(rate_limit_tracker, j)

C5_Frame ==
    /\ \A r \in Reqs, k \in PresentedKeys : GateCheck(r, k) => OtherWindowsKept(k)
    /\ \A r \in Reqs : GateCommit(r) => OtherWindowsKept(req[r].api_key)

\* The claim as made: limits are the quota itself.
C5_WithinQuota(k) ==
    /\ \A s \in Times : AdmissionsFrom(k, s) <= QuotaOf(k)
    /\ k \in DOMAIN rate_limit_tracker => Len(rate_limit_tracker[k]) <= QuotaOf(k)

C5_Original ==
    /\ [](\A k \in PresentedKeys :
            NoAdmissionLost(k) /\ (Known(k) => C5_WithinQuota(k)))
    /\ [][C5_Frame]_vars

\* C5 (amended): however requests presenting one key interleave, no
\* admission is lost from its window, the admissions of a key inside any
\* 60-second interval and the length of its stored window never exceed
\* max(quota, 0), and a step for one key leaves the other windows alone.
C5_WithinQuotaOrZero(k) ==
    /\ \A s \in Times : AdmissionsFrom(k, s) <= Max(QuotaOf(k), 0)
    /\ k \in DOMAIN rate_limit_tracker =>
            Len(rate_limit_tracker[k]) <= Max(QuotaOf(k), 0)

C5_Serialized ==
    /\ [](\A k \in PresentedKeys :
            NoAdmissionLost(k) /\ (Known(k) => C5_WithinQuotaOrZero(k)))
    /\ [][C5_Frame]_vars

\* A request stands between its quota check and its append while its key is
\* one admission short of its quota: a second check let in here would pass.
C5_Witness ==
    \E r \in Reqs :
        /\ req[r].pc = "checked"
        /\ Known(req[r].api_key)
        /\ Len(WindowOf(rate_limit_tracker, req[r].api_key)) + 1
              = QuotaOf(req[r].api_key)

\* A step of an admin endpoint called with key p.
AdminStep(p) ==
    \/ \E request \in NewAPIKeyRequests : GenerateApiKey(p, request)
    \/ ListApiKeys(p)
    \/ \E k \in PresentedKeys : ToggleApiKeyStatus(p, k) \/ DeleteApiKey(p, k)

\* The usage statistics of every record in the store before and after.
UsageKept ==
    \A k \in DictKeys(api_keys_db) \cap DictKeys(api_keys_db') :
        /\ DictGet(api_keys_db', k).total_requests = DictGet(api_keys_db, k).total_requests
        /\ DictGet(api_keys_db', k).last_used = DictGet(api_keys_db, k).last_used

C6_Gate ==
    phase = "running" =>
        \A p \in PresentedKeys :
            /\ AdminStatus(p) = 403 <=> p # MASTER_API_KEY
            /\ \A k \in PresentedKeys :
                  TargetStatus(api_keys_db, p, k) = 403 <=> p # MASTER_API_KEY

C6_Frame ==
    \A p \in AdminCallers :
        AdminStep(p) =>
            /\ rate_limit_tracker' = rate_limit_tracker
            /\ UsageKept
            /\ p # MASTER_API_KEY => api_keys_db' = api_keys_db /\ file' = file

\* C6: is_master grants exactly the configured master key, whatever the store
\* holds, and an admin request, granted or refused, changes no record's
\* total_requests or last_used and no rate window.
C6_AdminGate == [](C6_Gate) /\ [][C6_Frame]_vars

\* A key was generated although the store holds no active record under the
\* master key.
C6_Witness ==
    /\ phase = "running"
    /\ issued = 1
    /\ ~Active(MASTER_API_KEY)

\* The step is the append-and-count of an admission.
AdmissionStep == \E k \in PresentedKeys : Admits(k)

SnapshotCurrent == file' = SaveKeysToFile(api_keys_db')

\* The claim as made: every change of a record, the usage update of an
\* admission included, and shutdown leave the snapshot equal to the dict.
C7_Original ==
    [][ /\ (phase = "running" /\ api_keys_db' # api_keys_db) => SnapshotCurrent
        /\ phase' = "stopped" => SnapshotCurrent ]_vars

\* C7 (amended): after key generation, toggle and delete, and after
\* shutdown, the snapshot equals the dict; the usage update of an admission
\* changes the dict and leaves the snapshot as it was.
C7_SavedOnAdminMutation ==
    [][ /\ (phase = "running" /\ api_keys_db' # api_keys_db /\ ~AdmissionStep)
            => SnapshotCurrent
        /\ phase' = "stopped" => SnapshotCurrent
        /\ AdmissionStep => file' = file /\ api_keys_db' # api_keys_db ]_vars

\* After an admission a delete has brought the snapshot level with the dict.
C7_Witness ==
    /\ phase = "running"
    /\ Admitted(admits) >= 1
    /\ issued = 1
    /\ ~Known(NewKey(1))
    /\ saved.set
    /\ file = SaveKeysToFile(api_keys_db)

(* ------------------------------------------------------------------ *)
(* save_keys_to_file and load_keys_from_file on their own               *)
(* ------------------------------------------------------------------ *)
\* Records a dict may hold under key k.
RecordsOf(k) ==
    { APIKeyData(k, owner, 2, active, total, 0, last) :
        owner \in {"alice", "master"}, active \in BOOLEAN, total \in {0, 3},
        last \in {NoneValue, 30} }

\* Dicts of at most two entries, in either order.
RecordMappings ==
    {<<>>}
    \cup UNION { { <<[k |-> key, v |-> r]>> : r \in RecordsOf(key) } :
                  key \in {MASTER_API_KEY, OldKey} }
    \cup { <<[k |-> MASTER_API_KEY, v |-> r], [k |-> OldKey, v |-> u]>> :
            r \in RecordsOf(MASTER_API_KEY), u \in RecordsOf(OldKey) }
    \cup { <<[k |-> OldKey, v |-> u], [k |-> MASTER_API_KEY, v |-> r]>> :
            r \in RecordsOf(MASTER_API_KEY), u \in RecordsOf(OldKey) }

\* A member value that is a mapping without the required field owner.
RecordWithoutOwner ==
    [t |-> "object", key |-> JStr(OldKey), requests_per_minute |-> JInt(2)]

ValidMember == [k |-> OldKey, v |-> DumpRecord(OldUser)]

\* Snapshots json.load or the record constructor stumbles over.
MalformedSnapshots ==
    { FileGarbage,
      FileArray,
      FileObject(<<[k |-> NewKey(1), v |-> JInt(5)]>>),
      FileObject(<<ValidMember, [k |-> NewKey(1), v |-> JInt(5)]>>),
      FileObject(<<[k |-> NewKey(1), v |-> RecordWithoutOwner]>>),
      FileObject(<<ValidMember, [k |-> NewKey(1), v |-> RecordWithoutOwner]>>) }

Malformed(f) ==
    \/ f.kind \in {"garbage", "array"}
    \/ /\ f.kind = "object"
       /\ \E i \in 1..Len(f.members) :
             ~IsMapping(f.members[i].v) \/ ~ValidRecord(f.members[i].v)

\* A process about to start over any snapshot, or a running process whose
\* dict holds any record mapping.
InitStore ==
    /\ now = 0
    /\ req = [r \in Reqs |-> IdleReq]
    /\ loop = 0
    /\ issued = 0
    /\ admits = [k \in AllKeys |-> <<>>]
    /\ saved = NothingSaved
    /\ temp_dir = EmptyDir
    /\ scheduled = {}
    /\ sweep = Sleeping(SWEEP_INTERVAL_SECONDS)
    /\ sending = {}
    /\ job = NoJobs
    /\ \/ /\ phase = "boot"
          /\ api_keys_db = <<>>
          /\ rate_limit_tracker = EmptyTracker
          /\ file \in WellFormedSnapshots \cup MalformedSnapshots
       \/ /\ phase = "running"
          /\ api_keys_db \in RecordMappings
          /\ rate_limit_tracker \in {EmptyTracker, SetWindow(EmptyTracker, OldKey, <<0>>)}
          /\ file = FileAbsent

\* One call of save_keys_to_file.
SaveKeys ==
    /\ phase = "running"
    /\ Persist(api_keys_db)
    /\ UNCHANGED <<dirVars, phase, now, api_keys_db, rate_limit_tracker, req, loop,
                   issued, admits>>

\* The process ends and the module is imported anew: both dicts are empty.
Exit ==
    /\ phase \in {"running", "loaded"}
    /\ phase' = "boot"
    /\ api_keys_db' = <<>>
    /\ rate_limit_tracker' = EmptyTracker
    /\ UNCHANGED <<dirVars, now, file, req, loop, issued, admits, saved>>

\* The call of load_keys_from_file in startup_event.
LoadKeys ==
    /\ phase = "boot"
    /\ LET loaded == LoadKeysFromFile(file, api_keys_db, now)
       IN /\ api_keys_db' = loaded.db
          /\ phase' = IF loaded.outcome = "raised" THEN "crashed" ELSE "loaded"
    /\ UNCHANGED <<dirVars, now, file, rate_limit_tracker, req, loop, issued, admits,
                   saved>>

\* The master check of startup_event, lines 163-172.
MasterCheck ==
    /\ phase = "loaded"
    /\ phase' = "running"
    /\ api_keys_db' = EnsureMaster(api_keys_db, now)
    /\ IF HasMasterOwner(api_keys_db)
       THEN UNCHANGED <<file, saved>>
       ELSE Persist(EnsureMaster(api_keys_db, now))
    /\ UNCHANGED <<dirVars, now, rate_limit_tracker, req, loop, issued, admits>>

NextStore == SaveKeys \/ Exit \/ LoadKeys \/ MasterCheck

SpecStore == InitStore /\ [][NextStore]_vars

\* The entries of a dict, as a set.
Records(d) == {d[i] : i \in 1..Len(d)}

\* C8: a load into an empty store of the snapshot written by
\* save_keys_to_file yields the saved records, key by key and field by
\* field, and leaves no rate window.
C8_RoundTrip ==
    (phase = "loaded" /\ saved.set) =>
        /\ Records(api_keys_db) = Records(saved.db)
        /\ DictKeys(api_keys_db) = DictKeys(saved.db)
        /\ rate_limit_tracker = EmptyTracker

\* Two records, one inactive and one used before, came back from a snapshot.
C8_Witness ==
    /\ phase = "loaded"
    /\ saved.set
    /\ Len(api_keys_db) = 2
    /\ \E i \in 1..2 : ~api_keys_db[i].v.is_active
    /\ \E i \in 1..2 : api_keys_db[i].v.last_used # NoneValue

\* C9: load_keys_from_file over a malformed snapshot returns with the store
\* empty, and the master check then makes the master record its only entry.
C9_MalformedIsEmpty ==
    [][ /\ (phase = "boot" /\ Malformed(file)) =>
              (phase' = "loaded" /\ api_keys_db' = <<>>)
        /\ (phase = "loaded" /\ Malformed(file)) =>
              (phase' = "running" =>
                  api_keys_db' = <<[k |-> MASTER_API_KEY, v |-> MasterRecord(now)]>>)
      ]_vars

(* ------------------------------------------------------------------ *)
(* cleanup_temp_files and the files of TEMP_DOWNLOAD_DIR                *)
(* ------------------------------------------------------------------ *)
\* Number of wake-ups of the cleanup task the model follows.
MaxSweeps == 7

FileNames == {"a", "b"}

storeVars ==
    <<phase, file, api_keys_db, rate_limit_tracker, req, loop, issued, admits, saved,
      job>>

\* The server after startup_event: the master record is saved and the
\* cleanup task sleeps for the first time.
InitReaper ==
    /\ phase = "running"
    /\ now = 0
    /\ api_keys_db = EnsureMaster(<<>>, 0)
    /\ file = SaveKeysToFile(api_keys_db)
    /\ saved = [set |-> TRUE, db |-> api_keys_db]
    /\ rate_limit_tracker = EmptyTracker
    /\ req = [r \in Reqs |-> IdleReq]
    /\ loop = 0
    /\ issued = 0
    /\ admits = [k \in AllKeys |-> <<>>]
    /\ temp_dir = EmptyDir
    /\ scheduled = {}
    /\ sweep = Sleeping(SWEEP_INTERVAL_SECONDS)
    /\ sending = {}
    /\ job = NoJobs

Exists(f) == f \in DOMAIN temp_dir

Unlink(dir, f) == [g \in DOMAIN dir \ {f} |-> dir[g]]

\* os.remove(f) and os.stat(f) raise FileNotFoundError when f is not there.
RaisesNotFound(dir, f) == f \notin DOMAIN dir

\* The orders os.listdir may return the names in.
Listings(names) ==
    { l \in UNION { [1..n -> names] : n \in {Cardinality(names)} } :
        \A i, j \in 1..Len(l) : i # j => l[i] # l[j] }

\* A name is in use while the directory, a pending os.remove or the running
\* sweep refers to it; token_hex keeps new names apart from those.
InUse(f) ==
    \/ Exists(f)
    \/ f \in scheduled
    \/ sweep.pc # "sleep" /\ \E i \in 1..Len(sweep.listing) : sweep.listing[i] = f

\* asyncio.sleep(600) returns: time has moved to the wake-up.
Wake ==
    /\ sweep.pc = "sleep"
    /\ now < sweep.wake
    /\ sweep.wake <= MaxSweeps * SWEEP_INTERVAL_SECONDS
    /\ now' = sweep.wake
    /\ UNCHANGED <<storeVars, dirVars>>

\* A download writes file f; with delivered the handler reaches
\* background_tasks.add_task(os.remove, f), otherwise it raised before that
\* and the file stays behind.
Download(f, delivered) ==
    /\ ~InUse(f)
    /\ temp_dir' = [g \in DOMAIN temp_dir \cup {f} |-> IF g = f THEN now ELSE temp_dir[g]]
    /\ scheduled' = IF delivered THEN scheduled \cup {f} ELSE scheduled
    /\ sending' = IF delivered THEN sending \cup {f} ELSE sending
    /\ UNCHANGED <<storeVars, now, sweep>>

\* The last byte of the FileResponse for f has gone out.
ResponseSent(f) ==
    /\ f \in sending
    /\ sending' = sending \ {f}
    /\ UNCHANGED <<storeVars, now, temp_dir, scheduled, sweep>>

\* The background task os.remove(f), run in the thread pool after the response.
BackgroundRemove(f) ==
    /\ f \in scheduled
    /\ f \notin sending
    /\ scheduled' = scheduled \ {f}
    /\ temp_dir' = IF RaisesNotFound(temp_dir, f) THEN temp_dir
                   ELSE Unlink(temp_dir, f)
    /\ UNCHANGED <<storeVars, now, sweep, sending>>

\* Lines 144-145: now = time.time() and os.listdir.
SweepList ==
    /\ sweep.pc = "sleep"
    /\ now >= sweep.wake
    /\ \E l \in Listings(DOMAIN temp_dir) :
          sweep' = [sweep EXCEPT !.pc = "for", !.t = now, !.listing = l, !.i = 1]
    /\ UNCHANGED <<storeVars, now, temp_dir, scheduled, sending>>

\* The except clause of line 151, or the end of the for loop: back to sleep.
BackToSleep == Sleeping(now + SWEEP_INTERVAL_SECONDS)

\* Lines 145-147: the next name and os.path.isfile.
SweepIsFile ==
    /\ sweep.pc = "for"
    /\ sweep' = IF sweep.i > Len(sweep.listing) THEN BackToSleep
                ELSE IF Exists(sweep.listing[sweep.i])
                     THEN [sweep EXCEPT !.pc = "stat"]
                     ELSE [sweep EXCEPT !.i = sweep.i + 1]
    /\ UNCHANGED <<storeVars, now, temp_dir, scheduled, sending>>

\* Line 148: os.stat raises when the file is gone.
SweepStat ==
    /\ sweep.pc = "stat"
    /\ LET f == sweep.listing[sweep.i]
       IN sweep' = IF RaisesNotFound(temp_dir, f) THEN BackToSleep
                   ELSE IF temp_dir[f] < sweep.t - MAX_FILE_AGE_SECONDS
                        THEN [sweep EXCEPT !.pc = "remove"]
                        ELSE [sweep EXCEPT !.pc = "for", !.i = sweep.i + 1]
    /\ UNCHANGED <<storeVars, now, temp_dir, scheduled, sending>>

\* Line 149: os.remove raises when the file is gone.
SweepRemove ==
    /\ sweep.pc = "remove"
    /\ LET f == sweep.listing[sweep.i]
       IN IF RaisesNotFound(temp_dir, f)
          THEN /\ temp_dir' = temp_dir
               /\ sweep' = BackToSleep
          ELSE /\ temp_dir' = Unlink(temp_dir, f)
               /\ sweep' = [sweep EXCEPT !.pc = "for", !.i = sweep.i + 1]
    /\ UNCHANGED <<storeVars, now, scheduled, sending>>

SweepStep == SweepList \/ SweepIsFile \/ SweepStat \/ SweepRemove

NextReaper ==
    \/ Wake
    \/ \E f \in FileNames, delivered \in BOOLEAN : Download(f, delivered)
    \/ \E f \in FileNames : ResponseSent(f)
    \/ \E f \in FileNames : BackgroundRemove(f)
    \/ SweepList
    \/ SweepIsFile
    \/ SweepStat
    \/ SweepRemove

SpecReaper == InitReaper /\ [][NextReaper]_vars

Listed(sw, f) == \E i \in 1..Len(sw.listing) : sw.listing[i] = f

OlderThanTTL(dir, f, t) == dir[f] < t - MAX_FILE_AGE_SECONDS

NewerThanTTL(dir, f, t) == dir[f] > t - MAX_FILE_AGE_SECONDS

\* C10: when a sweep ends, no file it listed that is older than the TTL is
\* left in the directory; no step of a sweep removes or changes a file newer
\* than the TTL; and a sweep that listed no file older than the TTL leaves
\* the directory as it is.
C10_Sweep ==
    [][ /\ (sweep.pc # "sleep" /\ sweep'.pc = "sleep") =>
              \A f \in DOMAIN temp_dir' :
                  Listed(sweep, f) => ~OlderThanTTL(temp_dir', f, sweep.t)
        /\ (SweepStep /\ sweep.pc # "sleep") =>
              \A f \in DOMAIN temp_dir :
                  (NewerThanTTL(temp_dir, f, sweep.t)
                   \/ \A g \in DOMAIN temp_dir : ~OlderThanTTL(temp_dir, g, sweep.t))
                  => (f \in DOMAIN temp_dir' /\ temp_dir'[f] = temp_dir[f])
      ]_vars

(* ------------------------------------------------------------------ *)
(* get_video_info, download_video, download_audio                       *)
(* ------------------------------------------------------------------ *)
\* info['id'] of the one source URL all requests name.
VideoId == "vid"

Kinds == {"info", "video", "audio"}

\* Values of secrets.token_hex(4), taken to differ from call to call.
TokenPool == <<"h1", "h2", "h3">>

Tokens == {TokenPool[n] : n \in 1..Len(TokenPool)}

JobKeys == {MASTER_API_KEY, OldKey, NewKey(1), "bad"}

\* unique_filename_base, lines 256 and 309, as its parts between "_".
BaseName(kind, token) ==
    IF kind = "audio" THEN <<VideoId, "audio", token>> ELSE <<VideoId, token>>

\* The file yt-dlp leaves under output_template: base plus extension.
ArtifactName(kind, token) ==
    Append(BaseName(kind, token), IF kind = "audio" THEN "mp3" ELSE "mp4")

\* file.startswith(unique_filename_base)
StartsWith(name, base) ==
    /\ Len(base) <= Len(name)
    /\ SubSeq(name, 1, Len(base)) = base

\* A search by the video id alone.
CandidatesByVideoId(dir, kind, token) ==
    IF kind = "audio"
    THEN {f \in DOMAIN dir : f = ArtifactName(kind, token)}
    ELSE {f \in DOMAIN dir : StartsWith(f, <<VideoId>>)}

\* The files the handler may pick as its artifact: for video the first name
\* of os.listdir starting with the base (lines 277-280), for audio the path
\* base.mp3 if it exists (lines 329-331).
Candidates(dir, kind, token) ==
    IF kind = "audio"
    THEN {f \in DOMAIN dir : f = ArtifactName(kind, token)}
    ELSE {f \in DOMAIN dir : StartsWith(f, BaseName(kind, token))}

\* The handler body is entered whatever the dependency answered.
HandlerRunsAlways(status) == TRUE

\* Depends(get_api_key): the handler body runs only when the dependency
\* returned key_data; an HTTPException raised in it is the response.
HandlerRuns(status) == status = 200

\* A store with the master key, a user key of quota 1 and an inactive key.
JobsStore ==
    <<[k |-> MASTER_API_KEY, v |-> MasterRecord(0)],
      [k |-> OldKey, v |-> APIKeyData(OldKey, "alice", 1, TRUE, 0, 0, NoneValue)],
      [k |-> NewKey(1), v |-> APIKeyData(NewKey(1), "bob", 1, FALSE, 0, 0, NoneValue)]>>

InitJobs ==
    /\ phase = "running"
    /\ now = 0
    /\ api_keys_db = JobsStore
    /\ file = SaveKeysToFile(api_keys_db)
    /\ saved = [set |-> TRUE, db |-> api_keys_db]
    /\ rate_limit_tracker = EmptyTracker
    /\ req = [r \in Reqs |-> IdleReq]
    /\ loop = 0
    /\ issued = 0
    /\ admits = [k \in AllKeys |-> <<>>]
    /\ temp_dir = EmptyDir
    /\ scheduled = {}
    /\ sweep = Sleeping(SWEEP_INTERVAL_SECONDS)
    /\ sending = {}
    /\ job = NoJobs

jobFrame == <<phase, now, file, req, issued, saved, sweep>>

\* A request arrives at one of the three endpoints: get_api_key runs to its
\* end (it holds no await), and on its return the handler body starts with
\* extract_info, called in the coroutine itself (lines 205-208, 247-250,
\* 302-305).
Arrive(j, kind, k) ==
    /\ phase = "running"
    /\ loop = 0
    /\ job[j].pc = "idle"
    /\ \A i \in Jobs : i < j => job[i].pc # "idle"
    /\ LET status == GateStatus(api_keys_db, rate_limit_tracker, k, now)
           window == FilterWindow(WindowOf(rate_limit_tracker, k), now)
       IN /\ rate_limit_tracker' =
                IF status \in {401, 403} THEN rate_limit_tracker
                ELSE IF status = 429 THEN SetWindow(rate_limit_tracker, k, window)
                ELSE SetWindow(rate_limit_tracker, k, Append(window, now))
          /\ api_keys_db' =
                IF status = 200
                THEN DictPut(api_keys_db, k,
                             [DictGet(api_keys_db, k) EXCEPT
                                 !.total_requests = @ + 1, !.last_used = now])
                ELSE api_keys_db
          /\ admits' = IF status = 200 THEN [admits EXCEPT ![k] = Append(@, now)]
                       ELSE admits
          /\ job' = [job EXCEPT ![j] =
                        [IdleJob EXCEPT
                            !.pc = IF HandlerRuns(status) THEN "lookup" ELSE "rejected",
                            !.kind = kind, !.api_key = k, !.status = status]]
          /\ loop' = IF HandlerRuns(status) THEN j ELSE 0
    /\ UNCHANGED <<jobFrame, temp_dir, scheduled, sending>>

Fresh(h) == \A j \in Jobs : job[j].token # h

\* extract_info returns or raises. /info answers; a download draws its token
\* and hands the download to the executor (await loop.run_in_executor), which
\* gives the event loop up.
Lookup(j, ok) ==
    /\ job[j].pc = "lookup"
    /\ loop = j
    /\ loop' = 0
    /\ IF ~ok THEN job' = [job EXCEPT ![j].pc = "failed", ![j].status = 400]
       ELSE IF job[j].kind = "info" THEN job' = [job EXCEPT ![j].pc = "done"]
       ELSE \E h \in Tokens :
               /\ Fresh(h)
               /\ job' = [job EXCEPT ![j].pc = "download", ![j].token = h]
    /\ UNCHANGED <<jobFrame, api_keys_db, rate_limit_tracker, admits, temp_dir,
                   scheduled, sending>>

\* YoutubeDL(...).download in the executor thread: the file is written, or
\* DownloadError is raised and becomes a 400.
DownloadWrite(j, ok) ==
    /\ job[j].pc = "download"
    /\ LET f == ArtifactName(job[j].kind, job[j].token)
       IN IF ok
          THEN /\ temp_dir' = [g \in DOMAIN temp_dir \cup {f} |->
                                  IF g \in DOMAIN temp_dir THEN temp_dir[g] ELSE now]
               /\ job' = [job EXCEPT ![j].pc = "fetched"]
          ELSE /\ temp_dir' = temp_dir
               /\ job' = [job EXCEPT ![j].pc = "failed", ![j].status = 400]
    /\ UNCHANGED <<jobFrame, api_keys_db, rate_limit_tracker, admits, loop,
                   scheduled, sending>>

\* Back on the event loop: find the file, add the background task os.remove
\* and return the FileResponse (lines 275-288, 329-336).
Locate(j) ==
    /\ job[j].pc = "fetched"
    /\ loop = 0
    /\ LET found == Candidates(temp_dir, job[j].kind, job[j].token)
       IN IF found = {}
          THEN /\ job' = [job EXCEPT ![j].pc = "failed", ![j].status = 500]
               /\ UNCHANGED <<scheduled, sending>>
          ELSE \E f \in found :
                  /\ job' = [job EXCEPT ![j].pc = "respond", ![j].path = f]
                  /\ scheduled' = scheduled \cup {f}
                  /\ sending' = sending \cup {f}
    /\ UNCHANGED <<jobFrame, api_keys_db, rate_limit_tracker, admits, loop, temp_dir>>

\* The FileResponse is sent; it raises when the file is not there, and then
\* the background task does not run.
Send(j) ==
    /\ job[j].pc = "respond"
    /\ sending' = sending \ {job[j].path}
    /\ IF Exists(job[j].path)
       THEN /\ job' = [job EXCEPT ![j].pc = "sent"]
            /\ scheduled' = scheduled
       ELSE /\ job' = [job EXCEPT ![j].pc = "failed", ![j].status = 500]
            /\ scheduled' = scheduled \ {job[j].path}
    /\ UNCHANGED <<jobFrame, api_keys_db, rate_limit_tracker, admits, loop, temp_dir>>

\* The background task of the response: os.remove(path).
AfterResponse(j) ==
    /\ job[j].pc = "sent"
    /\ job' = [job EXCEPT ![j].pc = "done"]
    /\ scheduled' = scheduled \ {job[j].path}
    /\ temp_dir' = IF Exists(job[j].path) THEN Unlink(temp_dir, job[j].path)
                   ELSE temp_dir
    /\ UNCHANGED <<jobFrame, api_keys_db, rate_limit_tracker, admits, loop, sending>>

NextJobs ==
    \/ \E j \in Jobs, kind \in Kinds, k \in JobKeys : Arrive(j, kind, k)
    \/ \E j \in Jobs, ok \in BOOLEAN : Lookup(j, ok)
    \/ \E j \in Jobs, ok \in BOOLEAN : DownloadWrite(j, ok)
    \/ \E j \in Jobs : Locate(j)
    \/ \E j \in Jobs : Send(j)
    \/ \E j \in Jobs : AfterResponse(j)

SpecJobs == InitJobs /\ [][NextJobs]_vars

\* The download requests that have drawn their token.
HasToken(j) == job[j].token # "-"

\* The artifact job j writes.
Own(j) == ArtifactName(job[j].kind, job[j].token)

C11_Paths ==
    /\ \A i, j \in Jobs :
          (i # j /\ HasToken(i) /\ HasToken(j)) =>
              /\ Own(i) # Own(j)
              /\ ~StartsWith(Own(j), BaseName(job[i].kind, job[i].token))
    /\ \A j \in Jobs : job[j].pc \in {"respond", "sent"} => job[j].path = Own(j)

C11_Removal ==
    \A j \in Jobs :
        (HasToken(j) /\ Exists(Own(j)) /\ Own(j) \notin DOMAIN temp_dir') =>
            (job[j].pc = "sent" /\ job'[j].pc = "done")

\* C11: download jobs for the same URL in flight together have distinct
\* artifact paths, each job picks and delivers the file written under its
\* own base name, and an artifact leaves the directory only by the deletion
\* its own job scheduled.
C11_OwnArtifact == [](C11_Paths) /\ [][C11_Removal]_vars

\* Two video downloads overlap: one has delivered and deleted its file while
\* the other's file is in the directory, picked and about to be sent.
C11_Witness ==
    \E i, j \in Jobs :
        /\ i # j
        /\ job[i].kind = "video" /\ job[j].kind = "video"
        /\ job[i].pc = "done" /\ job[i].path = Own(i) /\ ~Exists(Own(i))
        /\ job[j].pc = "respond" /\ Exists(Own(j))

\* A retrieval-engine call of request j is in progress.
Retrieving(j) == job[j].pc \in {"lookup", "download"}

C12_State ==
    \A j \in Jobs :
        Retrieving(j) =>
            /\ job[j].status = 200
            /\ Len(admits[job[j].api_key]) >= 1

C12_Step ==
    \A j \in Jobs :
        /\ (~Retrieving(j) /\ Retrieving(j)') =>
              /\ job[j].pc = "idle"
              /\ GateStatus(api_keys_db, rate_limit_tracker, job'[j].api_key, now) = 200
              /\ Len(admits'[job'[j].api_key]) = Len(admits[job'[j].api_key]) + 1
        /\ job[j].pc = "rejected" => job'[j].pc = "rejected"

\* C12: a metadata lookup or download is in progress only for a request
\* get_api_key admitted; it starts in the step that admits the request, and
\* a request answered 401, 403 or 429 never starts one.
C12_AdmittedFirst == [](C12_State) /\ [][C12_Step]_vars

\* One request is downloading while another was turned away as throttled.
C12_Witness ==
    \E i, j \in Jobs :
        /\ job[i].pc = "download" /\ job[i].status = 200
        /\ job[j].pc = "rejected" /\ job[j].status = 429

\* C13: while a metadata lookup or a download of a request is in progress,
\* the event loop is not held by that request, so the serving context can
\* take steps for others.
C13_OffServingContext ==
    \A j \in Jobs : Retrieving(j) => loop # j

(* ------------------------------------------------------------------ *)
(* Properties of the records and windows                                *)
(* ------------------------------------------------------------------ *)
\* The entries of the store whose record has owner "master".
MasterOwned(db) == {i \in 1..Len(db) : db[i].v.owner = "master"}

\* C14: while the server runs, exactly one record of the store has owner
\* "master", and that record is active.
C14_OneActiveMaster ==
    phase = "running" =>
        /\ Cardinality(MasterOwned(api_keys_db)) = 1
        /\ \A i \in MasterOwned(api_keys_db) : api_keys_db[i].v.is_active

TotalRequests(db, k) == DictGet(db, k).total_requests

\* Every entry of window w is an entry of window v, in order and no more often.
RECURSIVE Thinned(_, _)
Thinned(w, v) ==
    IF w = <<>> THEN TRUE
    ELSE IF v = <<>> THEN FALSE
    ELSE IF Head(w) = Head(v) THEN Thinned(Tail(w), Tail(v))
    ELSE Thinned(w, Tail(v))

\* A step of get_api_key that ends in 401, 403 or 429, or that passes the
\* checks: no window gains an entry, no usage statistic changes.
C15_NoAppend ==
    (\E r \in Reqs, k \in PresentedKeys : GateCheck(r, k)) =>
        /\ \A j \in PresentedKeys :
              Thinned(WindowOf(rate_limit_tracker', j), WindowOf(rate_limit_tracker, j))
        /\ api_keys_db' = api_keys_db
        /\ admits' = admits

\* The step that completes an admission of key k.
C15_Admitted ==
    \A r \in Reqs :
        GateCommit(r) =>
            LET k == req[r].api_key
            IN /\ WindowOf(rate_limit_tracker', k)
                      = Append(WindowOf(rate_limit_tracker, k), req[r].current_time)
               /\ Known(k)
               /\ TotalRequests(api_keys_db', k) = TotalRequests(api_keys_db, k) + 1
               /\ OtherWindowsKept(k)
               /\ \A j \in DictKeys(api_keys_db) \ {k} :
                      DictGet(api_keys_db', j) = DictGet(api_keys_db, j)
               /\ DictKeys(api_keys_db') = DictKeys(api_keys_db)

\* total_requests of a key grows by one with each admission of the key and
\* changes in no other step.
C15_CountsAdmissions ==
    \A k \in DictKeys(api_keys_db) \cap DictKeys(api_keys_db') :
        TotalRequests(api_keys_db', k) - TotalRequests(api_keys_db, k)
            = Len(admits'[k]) - Len(admits[k])

\* The claim as made for C15: total_requests is the number of admissions of
\* the key since its record was loaded or created.
C15_Original ==
    /\ [](phase = "running" =>
            \A k \in DictKeys(api_keys_db) :
                TotalRequests(api_keys_db, k) = Len(admits[k]))
    /\ [][C15_NoAppend /\ C15_Admitted /\ C15_CountsAdmissions]_vars

\* C15 (amended): an attempt ending in 401, 403 or 429 appends to no window
\* and leaves every total_requests and last_used as it was; an admission
\* appends exactly one timestamp to the window of its key and adds exactly 1
\* to its total_requests, changing no other record or window; total_requests
\* never decreases, and a record created by the server starts at 0, so the
\* count is the value the record was loaded or created with plus the number
\* of admissions since.
C15_AdmissionFrame ==
    [][ /\ C15_NoAppend
        /\ C15_Admitted
        /\ phase = "running" => C15_CountsAdmissions
        /\ \A k \in DictKeys(api_keys_db') \ DictKeys(api_keys_db) :
               phase = "running" => TotalRequests(api_keys_db', k) = 0 ]_vars

\* A key loaded with one request on its record has been admitted since.
C15_Witness ==
    \E k \in PresentedKeys :
        /\ Known(k)
        /\ Len(admits[k]) >= 1
        /\ TotalRequests(api_keys_db, k) = Len(admits[k]) + 1

\* C19: every timestamp stored in a window of rate_limit_tracker is less
\* than 60 seconds old, whether or not its key has asked lately or still has
\* a record.
C19_WindowFresh ==
    \A k \in DOMAIN rate_limit_tracker :
        \A i \in 1..Len(rate_limit_tracker[k]) :
            now - rate_limit_tracker[k][i] < RATE_WINDOW_SECONDS

\* C20: once startup is through, the store has an active record under
\* MASTER_API_KEY, get_api_key answers that key 200 or 429, and the master
\* check of startup run again adds nothing.
C20_MasterUsable ==
    phase = "running" =>
        /\ Active(MASTER_API_KEY)
        /\ StatusNow(MASTER_API_KEY) \in {200, 429}
        /\ EnsureMaster(api_keys_db, now) = api_keys_db

(* ------------------------------------------------------------------ *)
(* Properties of the sweep and the deletions                            *)
(* ------------------------------------------------------------------ *)
\* The name the sweep is at.
Current == sweep.listing[sweep.i]

\* The sweep is at os.stat or os.remove of a name that is gone.
SweepFails ==
    /\ sweep.pc \in {"stat", "remove"}
    /\ RaisesNotFound(temp_dir, Current)

\* The sweep goes on to the name after the current one.
SweepGoesOn == sweep' = [sweep EXCEPT !.pc = "for", !.i = sweep.i + 1]

\* C16: a failure of os.stat or os.remove on one name leaves the sweep
\* running: it goes on with the next name, and when the sweep ends every
\* other listed file older than the TTL has been deleted.
C16_FailureIsolated ==
    [][ /\ (SweepFails /\ (SweepStat \/ SweepRemove)) => SweepGoesOn
        /\ (sweep.pc # "sleep" /\ sweep'.pc = "sleep") =>
              \A f \in DOMAIN temp_dir' :
                  (Listed(sweep, f) /\ ~(SweepFails /\ f = Current)) =>
                      ~OlderThanTTL(temp_dir', f, sweep.t)
      ]_vars

\* C17: when the background os.remove of a response and the sweep go for the
\* same file, the one that finds it gone raises nothing, and the sweep goes
\* on with the names that remain.
C17_AbsentIsBenign ==
    [][ /\ \A f \in FileNames :
              BackgroundRemove(f) => ~RaisesNotFound(temp_dir, f)
        /\ (sweep.pc = "remove" /\ SweepRemove) =>
              (~RaisesNotFound(temp_dir, Current) \/ SweepGoesOn)
      ]_vars

\* C18: the sweep deletes no file whose response is still being sent.
C18_NotWhileDelivered ==
    [][ SweepRemove =>
          \A f \in sending : f \in DOMAIN temp_dir => f \in DOMAIN temp_dir' ]_vars

====
